---- MODULE Spec2Model ----
(***************************************************************************)
(* praxa-backend: the recurring check-in call scheduler                    *)
(* (services/scheduler.py), the durable tables behind it                   *)
(* (services/supabase_client.py), the call start path and the Twilio       *)
(* status webhook (main.py) and the agent's session path                   *)
(* (agent/praxa_agent.py).                                                 *)
(*                                                                         *)
(* Time is counted in minutes since a Monday 00:00 UTC.  The code compares *)
(* a candidate whose seconds are zeroed with a 'now' that carries seconds, *)
(* and 'candidate <= now' / 'scheduled_for <= now' give the same answer    *)
(* for every second of a minute, so minutes lose nothing.                  *)
(***************************************************************************)
EXTENDS Integers, Sequences, FiniteSets, TLC

\* ---------------------------------------------------------------- bounds
MaxRows == 2        \* rows the scheduled_calls table holds
MaxRequested == 1   \* rows up to which POST /schedule-call is used
MaxQueued == 3      \* rows up to which the agent job queues a next call
MaxLogs == 1        \* rows the call_logs table holds
MaxTicks == 1       \* poll intervals that pass

\* ------------------------------------------------------ program constants
DefaultMaxAttempts == 3
PollMinutes == 5
MinutesPerDay == 1440

Workers == {"w1", "w2"}
Users == {"u1"}

NULL == -1

\* ------------------------------------------------------------ user settings
\* One configured slot: Monday 00:05 in the user's timezone.
MondaySlot == [day |-> 1, time |-> <<0, 5>>]

GoodSettings ==
  [present |-> TRUE, calls_enabled |-> TRUE, phone_number |-> TRUE,
   phone_verified |-> TRUE, checkin_enabled |-> TRUE,
   checkin_schedule |-> <<MondaySlot>>, timezone |-> "UTC"]

\* What the .get(..) defaults of the code make of an empty dict {}.
EmptyDict ==
  [present |-> FALSE, calls_enabled |-> TRUE, phone_number |-> FALSE,
   phone_verified |-> FALSE, checkin_enabled |-> TRUE,
   checkin_schedule |-> <<>>, timezone |-> "America/New_York"]

SettingsChoices ==
  { GoodSettings,
    [GoodSettings EXCEPT !.calls_enabled = FALSE],
    [GoodSettings EXCEPT !.phone_verified = FALSE],
    [GoodSettings EXCEPT !.phone_number = FALSE],
    [GoodSettings EXCEPT !.checkin_enabled = FALSE],
    [GoodSettings EXCEPT !.checkin_schedule = <<>>],
    EmptyDict }

VARIABLES
  now,             \* wall clock (UTC), minutes since Monday 00:00
  user_settings,   \* table user_settings: user -> row (present = FALSE: no row)
  scheduled_calls, \* table scheduled_calls: sequence of rows, id = index
  call_logs,       \* table call_logs: sequence of rows, id = index
  pc,              \* caller -> where it is in its handler
  pending_calls,   \* worker -> rest of the list fetched by this poll cycle
  call_log_id,     \* caller -> call_log_id local of trigger_call_for_user
  agent,           \* call log id -> position of the agent job of its room
  trigger_count,   \* history: scheduled call id -> trigger_callback invocations
  sync_settings,   \* request -> settings local of its sync_scheduled_calls
  sync_cancelled,  \* history: running request -> ids of the rows it cancelled
  webhook_response \* what POST /webhook/twilio answered last

vars == <<now, user_settings, scheduled_calls, call_logs, pc, pending_calls,
          call_log_id, agent, trigger_count, sync_settings, sync_cancelled,
          webhook_response>>

ApiCallers == {"api"}
Callers == Workers \cup ApiCallers

\* The running POST /sync-scheduled-calls requests: one per user, named
\* after the user, and a second request of the user u1.
SecondRequests == {"r2"}
SyncRequests == Users \cup SecondRequests
RequestUser(r) == IF r \in Users THEN r ELSE "u1"

\* ------------------------------------------------------- next occurrence
\* ZoneInfo("America/New_York") in the modelled weeks: minute 0 is Monday
\* 2026-10-26 00:00 UTC, and daylight saving time ends on Sunday 2026-11-01
\* at 06:00 UTC (02:00 EDT becomes 01:00 EST).
FallBack == 9000

\* utcoffset() of an instant, in minutes
UtcOffsetAt(tz, t) ==
  IF tz = "America/New_York" THEN (IF t < FallBack THEN -240 ELSE -300) ELSE 0

\* utcoffset() of a wall time with fold = 0: of the two readings of the
\* repeated hour 01:00-01:59 the first (EDT) one
UtcOffsetOfWall(tz, wall) ==
  IF tz = "America/New_York"
  THEN (IF wall < FallBack - 240 THEN -240 ELSE -300)
  ELSE 0

\* datetime.now(user_tz): the wall time of the instant t
NowLocal(tz, t) == t + UtcOffsetAt(tz, t)

\* .astimezone(ZoneInfo("UTC")) of a wall time that came out of datetime
\* arithmetic (fold = 0)
ToUtc(tz, wall) == wall - UtcOffsetOfWall(tz, wall)

\* datetime.weekday(): 0 = Monday; minute 0 of the clock is a Monday 00:00.
Weekday(t) == (t \div MinutesPerDay) % 7

\* schedule day (0 = Sunday) -> weekday() numbering
TargetWeekday(day) == IF day = 0 THEN 6 ELSE day - 1

\* A schedule entry is [day |-> d, time |-> parts]: d is the "day" value
\* (NULL: the key is missing), parts is the "time" string split at ":" with
\* every part as the integer it reads as (NULL: it reads as no integer);
\* <<>> is a missing or empty "time".

\* "if day is None or not time_str: continue"
MissingField(entry) == entry.day = NULL \/ entry.time = <<>>

\* "hour, minute = map(int, time_str.split(":"))" raises ValueError
BadTimeFormat(entry) ==
  \/ Len(entry.time) # 2
  \/ \E i \in DOMAIN entry.time : entry.time[i] = NULL

\* the entry is passed over with a warning ("continue")
Skipped(entry) == MissingField(entry) \/ BadTimeFormat(entry)

\* now_local.replace(hour=hour, minute=minute, ..) raises ValueError, which
\* no handler inside the loop catches
ReplaceRaises(entry) ==
  \/ entry.time[1] \notin 0..23
  \/ entry.time[2] \notin 0..59

\* the candidate with "<" in place of "<=": equality does not roll forward
Candidate_FiresAtEquality(entry, now_local) ==
  LET days_ahead == (TargetWeekday(entry.day) - Weekday(now_local)) % 7
      replaced   == (now_local \div MinutesPerDay) * MinutesPerDay
                      + entry.time[1] * 60 + entry.time[2]
      cand       == replaced + days_ahead * MinutesPerDay
  IN  IF cand < now_local THEN cand + 7 * MinutesPerDay ELSE cand

\* candidate local datetime of one schedule entry
Candidate(entry, now_local) ==
  LET days_ahead == (TargetWeekday(entry.day) - Weekday(now_local)) % 7
      replaced   == (now_local \div MinutesPerDay) * MinutesPerDay
                      + entry.time[1] * 60 + entry.time[2]
      cand       == replaced + days_ahead * MinutesPerDay
  IN  IF cand <= now_local THEN cand + 7 * MinutesPerDay ELSE cand

\* the windows with noon counted as morning
TimeWindow_NoonIsMorning(hour) ==
  IF hour <= 12 THEN "morning" ELSE IF hour < 17 THEN "afternoon" ELSE "evening"

TimeWindow(hour) ==
  IF hour < 12 THEN "morning" ELSE IF hour < 17 THEN "afternoon" ELSE "evening"

HourOf(t) == (t % MinutesPerDay) \div 60

RECURSIVE ClosestFrom(_, _, _, _)
\* the loop of schedule_next_call: keeps the first strictly earliest candidate
ClosestFrom(schedule, i, now_local, best) ==
  IF i > Len(schedule) THEN best
  ELSE IF Skipped(schedule[i]) THEN ClosestFrom(schedule, i + 1, now_local, best)
  ELSE LET c == Candidate(schedule[i], now_local)
       IN  ClosestFrom(schedule, i + 1, now_local,
                       IF best = NULL \/ c < best THEN c ELSE best)

\* the loop reaches an entry on which it raises
LoopRaises(schedule) ==
  \E i \in DOMAIN schedule : ~Skipped(schedule[i]) /\ ReplaceRaises(schedule[i])

NewScheduledCall(user_id, next_call_local, tz) ==
  [user_id |-> user_id,
   scheduled_for |-> ToUtc(tz, next_call_local),
   time_window |-> TimeWindow(HourOf(next_call_local)),
   status |-> "pending",
   attempt_count |-> 0,
   max_attempts |-> DefaultMaxAttempts,
   last_attempt_at |-> NULL]

\* schedule_next_call raises before it inserts anything
schedule_next_call_raises(checkin_schedule, checkin_enabled) ==
  /\ checkin_enabled
  /\ checkin_schedule # <<>>
  /\ LoopRaises(checkin_schedule)

\* schedule_next_call: the rows it inserts (none when it returns None)
\* schedule_next_call without its "if not checkin_enabled or not
\* checkin_schedule" return
schedule_next_call_Unguarded(user_id, checkin_schedule, tz, checkin_enabled, t) ==
  IF LoopRaises(checkin_schedule) THEN <<>>
  ELSE LET next_call_local == ClosestFrom(checkin_schedule, 1, NowLocal(tz, t), NULL)
       IN  IF next_call_local = NULL THEN <<>>
           ELSE <<NewScheduledCall(user_id, next_call_local, tz)>>

schedule_next_call(user_id, checkin_schedule, tz, checkin_enabled, t) ==
  IF ~checkin_enabled \/ checkin_schedule = <<>> THEN <<>>
  ELSE IF LoopRaises(checkin_schedule) THEN <<>>
  ELSE LET next_call_local == ClosestFrom(checkin_schedule, 1, NowLocal(tz, t), NULL)
       IN  IF next_call_local = NULL THEN <<>>
           ELSE <<NewScheduledCall(user_id, next_call_local, tz)>>

\* ------------------------------------------------------------ the tables
\* .update(updates).eq("id", id): the row with the given columns overwritten,
\* whatever the row holds
UpdateRow(table, id, updates) ==
  [table EXCEPT ![id] =
     [f \in DOMAIN @ |-> IF f \in DOMAIN updates THEN updates[f] ELSE @[f]]]

update_scheduled_call(id, updates) == UpdateRow(scheduled_calls, id, updates)

update_call_log(id, updates) == UpdateRow(call_logs, id, updates)

\* the rows an insert adds: a full table makes the insert raise
CanInsert(table, max) == Len(table) < max

\* the query without .lte("scheduled_for", now)
DueIds_AnyTime == { i \in DOMAIN scheduled_calls :
                      scheduled_calls[i].status = "pending" }

\* .eq("status", "pending").lte("scheduled_for", now)
DueIds == { i \in DOMAIN scheduled_calls :
              /\ scheduled_calls[i].status = "pending"
              /\ scheduled_calls[i].scheduled_for <= now }

\* the query without .order("scheduled_for"): the due rows in any order
OrderedDue_Unordered ==
  { s \in [1..Cardinality(DueIds) -> DueIds] :
      \A i, j \in DOMAIN s : i < j => s[i] # s[j] }

\* .order("scheduled_for"): every listing of the due rows in that order
OrderedDue ==
  { s \in [1..Cardinality(DueIds) -> DueIds] :
      /\ \A i, j \in DOMAIN s : i < j =>
           /\ s[i] # s[j]
           /\ scheduled_calls[s[i]].scheduled_for <= scheduled_calls[s[j]].scheduled_for }

\* one element of the list get_pending_scheduled_calls returns: the row as
\* read, with the user's settings row attached ({} when there is none or
\* the settings query raised)
Fetched(id, settings_ok) ==
  [id |-> id,
   user_id |-> scheduled_calls[id].user_id,
   scheduled_for |-> scheduled_calls[id].scheduled_for,
   attempt_count |-> scheduled_calls[id].attempt_count,
   max_attempts |-> scheduled_calls[id].max_attempts,
   user_settings |->
     IF settings_ok /\ user_settings[scheduled_calls[id].user_id].present
     THEN user_settings[scheduled_calls[id].user_id] ELSE EmptyDict]

get_pending_scheduled_calls(order, settings_ok) ==
  [i \in DOMAIN order |-> Fetched(order[i], settings_ok)]

\* ------------------------------------------------------------ dispatcher
scheduled_call(w) == Head(pending_calls[w])

\* the loop of check_and_trigger_calls moves to the next element
NextInCycle(w) ==
  /\ pending_calls' = [pending_calls EXCEPT ![w] = Tail(@)]
  /\ pc' = [pc EXCEPT ![w] = IF Len(pending_calls[w]) > 1 THEN "claim" ELSE "idle"]

\* an exception leaves _process_scheduled_call: the cycle's except logs it
AbortCycle(w) ==
  /\ pending_calls' = [pending_calls EXCEPT ![w] = <<>>]
  /\ pc' = [pc EXCEPT ![w] = "idle"]

\* the checks made on the settings attached at fetch time
SkipCheck(settings) ==
  \/ ~settings.calls_enabled
  \/ ~settings.phone_number
  \/ ~settings.phone_verified

\* the except branch's decision: the status it writes
RetryStatus(attempt_count, max_attempts) ==
  IF attempt_count + 1 >= max_attempts THEN "failed" ELSE "pending"

\* check_and_trigger_calls up to the loop
Poll(w) ==
  /\ pc[w] = "idle"
  /\ \/ \* get_pending_scheduled_calls raises: logged, the cycle ends
        UNCHANGED <<pc, pending_calls>>
     \/ \E order \in OrderedDue, settings_ok \in BOOLEAN :
          /\ pending_calls' = [pending_calls EXCEPT
                 ![w] = get_pending_scheduled_calls(order, settings_ok)]
          /\ pc' = [pc EXCEPT ![w] = IF order = <<>> THEN "idle" ELSE "claim"]
  /\ UNCHANGED <<now, sync_settings, sync_cancelled, webhook_response, user_settings, scheduled_calls, call_logs, call_log_id,
                 agent, trigger_count>>

\* "Mark as processing", then the two checks on the attached settings
MarkProcessing(w) ==
  /\ pc[w] = "claim"
  /\ \/ /\ scheduled_calls' = update_scheduled_call(scheduled_call(w).id,
              [status |-> "processing",
               last_attempt_at |-> now,
               attempt_count |-> scheduled_call(w).attempt_count + 1])
        /\ pc' = [pc EXCEPT ![w] =
              IF SkipCheck(scheduled_call(w).user_settings) THEN "skip" ELSE "trigger"]
     \/ \* the update raises
        /\ pc' = [pc EXCEPT ![w] = "retry"]
        /\ UNCHANGED scheduled_calls
  /\ UNCHANGED <<now, sync_settings, sync_cancelled, webhook_response, user_settings, call_logs, pending_calls, call_log_id,
                 agent, trigger_count>>

MarkSkipped(w) ==
  /\ pc[w] = "skip"
  /\ \/ /\ scheduled_calls' = update_scheduled_call(scheduled_call(w).id,
              [status |-> "skipped"])
        /\ NextInCycle(w)
     \/ /\ pc' = [pc EXCEPT ![w] = "retry"]
        /\ UNCHANGED <<scheduled_calls, pending_calls>>
  /\ UNCHANGED <<now, sync_settings, sync_cancelled, webhook_response, user_settings, call_logs, call_log_id, agent, trigger_count>>

\* the except branch of _process_scheduled_call
HandleFailure(w) ==
  /\ pc[w] = "retry"
  /\ \/ /\ scheduled_calls' = update_scheduled_call(scheduled_call(w).id,
              [status |-> RetryStatus(scheduled_call(w).attempt_count,
                                      scheduled_call(w).max_attempts)])
        /\ NextInCycle(w)
     \/ \* this update raises too
        /\ AbortCycle(w)
        /\ UNCHANGED scheduled_calls
  /\ UNCHANGED <<now, sync_settings, sync_cancelled, webhook_response, user_settings, call_logs, call_log_id, agent, trigger_count>>

\* ------------------------------------------------ trigger_call_for_user
\* the user a caller triggers a call for
ApiUser == "u1"
UserOf(c) == IF c \in Workers THEN scheduled_call(c).user_id ELSE ApiUser

NewCallLog(user_id) ==
  [user_id |-> user_id, status |-> "initiated", call_sid |-> NULL,
   started_at |-> NULL, ended_at |-> NULL, duration_seconds |-> NULL,
   failure_reason |-> "", transcript |-> "", summary |-> ""]

\* the checks before the call log is created
CanCall(settings) ==
  /\ settings.present
  /\ settings.calls_enabled
  /\ settings.phone_number

\* trigger_call_for_user returns None
ReturnNone(c) ==
  /\ call_log_id' = [call_log_id EXCEPT ![c] = 0]
  /\ IF c \in Workers THEN NextInCycle(c)
     ELSE pc' = [pc EXCEPT ![c] = "idle"] /\ UNCHANGED pending_calls

\* trigger_call_for_user returns {"call_log_id": .., "room_name": ..}
ReturnResult(c) ==
  /\ call_log_id' = [call_log_id EXCEPT ![c] = 0]
  /\ pc' = [pc EXCEPT ![c] = IF c \in Workers THEN "schedule_next" ELSE "idle"]
  /\ UNCHANGED pending_calls

Invoked(c) ==
  IF c \in Workers
  THEN [trigger_count EXCEPT ![scheduled_call(c).id] = @ + 1]
  ELSE trigger_count

\* the "Failed to initiate call" update of the except branch
MarkInitiateFailed(id) ==
  update_call_log(id, [status |-> "failed",
                       failure_reason |-> "Failed to initiate call"])

\* settings are read and checked, the call log is created
TriggerCreateLog(c) ==
  /\ pc[c] = "trigger"
  /\ trigger_count' = Invoked(c)
  /\ \/ /\ CanCall(user_settings[UserOf(c)])
        /\ CanInsert(call_logs, MaxLogs)
        /\ call_logs' = Append(call_logs, NewCallLog(UserOf(c)))
        /\ agent' = Append(agent, [at |-> "none", user_settings |-> EmptyDict])
        /\ call_log_id' = [call_log_id EXCEPT ![c] = Len(call_logs) + 1]
        /\ pc' = [pc EXCEPT ![c] = "room"]
        /\ UNCHANGED pending_calls
     \/ \* a check fails, or a query or the insert raises
        /\ ReturnNone(c)
        /\ UNCHANGED <<call_logs, agent>>
  /\ UNCHANGED <<now, sync_settings, sync_cancelled, webhook_response, user_settings, scheduled_calls>>

\* the LiveKit room is created: the agent job of the room is dispatched
TriggerCreateRoom(c) ==
  /\ pc[c] = "room"
  /\ \/ /\ agent' = [agent EXCEPT ![call_log_id[c]].at = "dispatched"]
        /\ pc' = [pc EXCEPT ![c] = "initiated"]
        /\ UNCHANGED <<call_logs, call_log_id, pending_calls>>
     \/ \* create_room raises
        /\ call_logs' \in {MarkInitiateFailed(call_log_id[c]), call_logs}
        /\ ReturnNone(c)
        /\ UNCHANGED agent
  /\ UNCHANGED <<now, sync_settings, sync_cancelled, webhook_response, user_settings, scheduled_calls, trigger_count>>

\* "Update call log status"
TriggerMarkInitiated(c) ==
  /\ pc[c] = "initiated"
  /\ \/ /\ call_logs' = update_call_log(call_log_id[c], [status |-> "initiated"])
        /\ ReturnResult(c)
     \/ \* the update raises inside the room's try block
        /\ call_logs' \in {MarkInitiateFailed(call_log_id[c]), call_logs}
        /\ ReturnNone(c)
  /\ UNCHANGED <<now, sync_settings, sync_cancelled, webhook_response, user_settings, scheduled_calls, agent, trigger_count>>

\* _schedule_next_for_user, on the settings attached at fetch time
ScheduleNextForUser(user_id, settings, t) ==
  IF ~settings.checkin_enabled \/ settings.checkin_schedule = <<>> THEN <<>>
  ELSE schedule_next_call(user_id, settings.checkin_schedule, settings.timezone,
                          settings.checkin_enabled, t)

InsertScheduledCalls(rows) ==
  /\ scheduled_calls' = scheduled_calls \o rows
  /\ trigger_count' = trigger_count \o [i \in DOMAIN rows |-> 0]

\* an exception of the insert under the retry branch of _process_scheduled_call
ScheduleNextRaised_Retries(w) ==
  /\ pc' = [pc EXCEPT ![w] = "retry"]
  /\ UNCHANGED pending_calls

\* the excepts around schedule_next_call log the exception; the loop goes on
ScheduleNextRaised(w) == NextInCycle(w)

\* "if result:" schedule the next call; a failure is logged
ScheduleNext(w) ==
  /\ pc[w] = "schedule_next"
  /\ LET rows == ScheduleNextForUser(scheduled_call(w).user_id,
                                     scheduled_call(w).user_settings, now)
     IN  \/ /\ rows = <<>> \/ CanInsert(scheduled_calls, MaxRows)
            /\ InsertScheduledCalls(rows)
            /\ NextInCycle(w)
         \/ /\ rows # <<>>
            /\ UNCHANGED <<scheduled_calls, trigger_count>>
            /\ ScheduleNextRaised(w)
  /\ UNCHANGED <<now, sync_settings, sync_cancelled, webhook_response, user_settings, call_logs, call_log_id, agent>>

\* ----------------------------------------------------------- environment
\* five minutes pass
Tick ==
  /\ now < MaxTicks * PollMinutes
  /\ now' = now + PollMinutes
  /\ UNCHANGED <<sync_settings, sync_cancelled, webhook_response, user_settings, scheduled_calls, call_logs, pc,
                 pending_calls, call_log_id, agent, trigger_count>>

\* the user edits the settings row (owned by the app, read by the backend)
ChangeSettingsTo(u, s) ==
  /\ s # user_settings[u]
  /\ user_settings' = [user_settings EXCEPT ![u] = s]
  /\ UNCHANGED <<now, sync_settings, sync_cancelled, webhook_response, scheduled_calls, call_logs, pc, pending_calls,
                 call_log_id, agent, trigger_count>>

ChangeSettings(u) == \E s \in SettingsChoices : ChangeSettingsTo(u, s)

\* POST /schedule-call
schedule_call(u) ==
  /\ user_settings[u].present
  /\ CanInsert(scheduled_calls, MaxRequested)
  /\ LET rows == schedule_next_call(u, user_settings[u].checkin_schedule,
                                    user_settings[u].timezone,
                                    user_settings[u].checkin_enabled, now)
     IN  rows # <<>> /\ InsertScheduledCalls(rows)
  /\ UNCHANGED <<now, sync_settings, sync_cancelled, webhook_response, user_settings, call_logs, pc, pending_calls,
                 call_log_id, agent>>

\* --------------------------------------------- POST /sync-scheduled-calls
\* "Calculate next occurrence" of create_all_scheduled_calls
NextCallLocal(schedule_entry, now_local) ==
  LET days_ahead ==
        (TargetWeekday(schedule_entry.day) - Weekday(now_local)) % 7
      next_call_local ==
        (now_local \div MinutesPerDay) * MinutesPerDay
          + schedule_entry.time[1] * 60 + schedule_entry.time[2]
          + days_ahead * MinutesPerDay
  IN  IF next_call_local <= now_local
      THEN next_call_local + 7 * MinutesPerDay
      ELSE next_call_local

\* scheduled_call_data of create_all_scheduled_calls
CreatedCall(user_id, schedule_entry, tz, now_local) ==
  [user_id |-> user_id,
   scheduled_for |-> ToUtc(tz, NextCallLocal(schedule_entry, now_local)),
   time_window |-> TimeWindow(schedule_entry.time[1]),
   status |-> "pending",
   attempt_count |-> 0,
   max_attempts |-> DefaultMaxAttempts,
   last_attempt_at |-> NULL]

\* the entries the loop gets through: all of them, or those before the
\* first one on which it raises
BeforeRaise(schedule) ==
  LET bad == { i \in DOMAIN schedule :
                 ~Skipped(schedule[i]) /\ ReplaceRaises(schedule[i]) }
  IN  IF bad = {} THEN schedule
      ELSE SubSeq(schedule, 1, (CHOOSE i \in bad : \A j \in bad : i <= j) - 1)

\* create_all_scheduled_calls: the rows it inserts, in order, when no
\* insert raises
create_all_scheduled_calls(user_id, checkin_schedule, tz, checkin_enabled, t) ==
  IF ~checkin_enabled \/ checkin_schedule = <<>> THEN <<>>
  ELSE LET kept == SelectSeq(BeforeRaise(checkin_schedule),
                             LAMBDA e : ~Skipped(e))
       IN  [i \in DOMAIN kept |->
              CreatedCall(user_id, kept[i], tz, NowLocal(tz, t))]

\* the handler returning without the cancel
CancelPending_Nothing(user_id) == scheduled_calls

\* the cancel without its status filter
CancelPending_AnyStatus(user_id) ==
  [i \in DOMAIN scheduled_calls |->
     IF scheduled_calls[i].user_id = user_id
     THEN [scheduled_calls[i] EXCEPT !.status = "cancelled"]
     ELSE scheduled_calls[i]]

\* .update({"status": "cancelled"}).eq("user_id", ..).eq("status", "pending")
CancelPending(user_id) ==
  [i \in DOMAIN scheduled_calls |->
     IF /\ scheduled_calls[i].user_id = user_id
        /\ scheduled_calls[i].status = "pending"
     THEN [scheduled_calls[i] EXCEPT !.status = "cancelled"]
     ELSE scheduled_calls[i]]

\* sync_scheduled_calls: the settings are read and the pending calls
\* cancelled; without check-ins the handler returns here
SyncCancel(r) ==
  /\ pc[r] = "idle"
  /\ user_settings[RequestUser(r)].present
  /\ scheduled_calls' = CancelPending(RequestUser(r))
  /\ sync_settings' = [sync_settings EXCEPT ![r] = user_settings[RequestUser(r)]]
  /\ pc' = [pc EXCEPT ![r] =
        IF \/ ~user_settings[RequestUser(r)].checkin_enabled
           \/ user_settings[RequestUser(r)].checkin_schedule = <<>>
        THEN "idle" ELSE "create"]
  /\ sync_cancelled' = [sync_cancelled EXCEPT ![r] =
        IF pc'[r] = "idle" THEN {}
        ELSE { i \in DOMAIN scheduled_calls :
                 CancelPending(RequestUser(r))[i] # scheduled_calls[i] }]
  /\ UNCHANGED <<now, webhook_response, user_settings, call_logs, pending_calls, call_log_id,
                 agent, trigger_count>>

\* sync_scheduled_calls: create_all_scheduled_calls inserts row after row;
\* an insert that raises, or the loop raising, ends it with the rows
\* inserted so far
SyncCreate(r) ==
  /\ pc[r] = "create"
  /\ LET rows == create_all_scheduled_calls(RequestUser(r),
                   sync_settings[r].checkin_schedule,
                   sync_settings[r].timezone,
                   sync_settings[r].checkin_enabled, now)
     IN  \E k \in 0..Len(rows) :
           /\ Len(scheduled_calls) + k <= MaxRows
           /\ InsertScheduledCalls(SubSeq(rows, 1, k))
  /\ pc' = [pc EXCEPT ![r] = "idle"]
  /\ sync_cancelled' = [sync_cancelled EXCEPT ![r] = {}]
  /\ UNCHANGED <<now, webhook_response, sync_settings, user_settings, call_logs, pending_calls,
                 call_log_id, agent>>

\* ------------------------------------------------------ POST /trigger-call
\* the endpoint's own checks, then trigger_call_for_user
trigger_call(c) ==
  /\ pc[c] = "idle"
  /\ user_settings[ApiUser].present
  /\ user_settings[ApiUser].phone_number
  /\ pc' = [pc EXCEPT ![c] = "trigger"]
  /\ UNCHANGED <<now, sync_settings, sync_cancelled, webhook_response, user_settings, scheduled_calls, call_logs, pending_calls,
                 call_log_id, agent, trigger_count>>

\* ------------------------------------------------- the agent job of a room
\* the "SIP dial failed" update of entrypoint's except branch
MarkDialFailed(id) ==
  update_call_log(id, [status |-> "failed",
                       failure_reason |-> "SIP dial failed"])

AgentAt(l, at) == [agent EXCEPT ![l].at = at]

\* entrypoint: connect, load_user_context, dial out via SIP, "ringing"
AgentDial(l) ==
  /\ agent[l].at = "dispatched"
  /\ \/ \* load_user_context raises (no settings row, a query fails)
        /\ agent' = AgentAt(l, "done")
        /\ UNCHANGED call_logs
     \/ /\ user_settings[call_logs[l].user_id].present
        /\ \/ /\ call_logs' = update_call_log(l, [status |-> "ringing", call_sid |-> l])
              /\ agent' = [agent EXCEPT ![l] =
                   [at |-> "ringing",
                    user_settings |-> user_settings[call_logs[l].user_id]]]
           \/ \* the SIP request or the "ringing" update raises
              /\ call_logs' \in {MarkDialFailed(l), call_logs}
              /\ agent' = AgentAt(l, "done")
  /\ UNCHANGED <<now, sync_settings, sync_cancelled, webhook_response, user_settings, scheduled_calls, pc, pending_calls,
                 call_log_id, trigger_count>>

\* wait_for_participant, then on_call_started
AgentConnect(l) ==
  /\ agent[l].at = "ringing"
  /\ \/ /\ call_logs' = update_call_log(l, [status |-> "in_progress",
                                            started_at |-> now])
        /\ agent' = AgentAt(l, "in_call")
     \/ \* on_call_started's update raises: the job dies
        /\ agent' = AgentAt(l, "done")
        /\ UNCHANGED call_logs
     \/ \* wait_for_participant raises
        /\ call_logs' \in {MarkDialFailed(l), call_logs}
        /\ agent' = AgentAt(l, "done")
  /\ UNCHANGED <<now, sync_settings, sync_cancelled, webhook_response, user_settings, scheduled_calls, pc, pending_calls,
                 call_log_id, trigger_count>>

\* on_call_ended: the "completed" update
AgentCallEnded(l) ==
  /\ agent[l].at = "in_call"
  /\ \/ /\ call_logs' = update_call_log(l,
              [status |-> "completed", ended_at |-> now,
               duration_seconds |-> (now - call_logs[l].started_at) * 60,
               transcript |-> "transcript", summary |-> "summary"])
        /\ agent' = AgentAt(l, "schedule_next")
     \/ \* the update raises: logged by on_call_ended
        /\ agent' = AgentAt(l, "done")
        /\ UNCHANGED call_logs
  /\ UNCHANGED <<now, sync_settings, sync_cancelled, webhook_response, user_settings, scheduled_calls, pc, pending_calls,
                 call_log_id, trigger_count>>

\* on_call_ended: "Schedule next call", on the settings loaded at the start
AgentScheduleNext(l) ==
  /\ agent[l].at = "schedule_next"
  /\ LET rows == schedule_next_call(call_logs[l].user_id,
                                    agent[l].user_settings.checkin_schedule,
                                    agent[l].user_settings.timezone,
                                    agent[l].user_settings.checkin_enabled, now)
     IN  \/ /\ rows = <<>> \/ CanInsert(scheduled_calls, MaxQueued)
            /\ InsertScheduledCalls(rows)
         \/ /\ rows # <<>>
            /\ UNCHANGED <<scheduled_calls, trigger_count>>
  /\ agent' = AgentAt(l, "done")
  /\ UNCHANGED <<now, sync_settings, sync_cancelled, webhook_response, user_settings, call_logs, pc, pending_calls, call_log_id>>

\* ------------------------------------------------- POST /webhook/twilio
TwilioStatuses ==
  {"initiated", "ringing", "in-progress", "completed", "busy", "no-answer",
   "failed", "canceled", "queued"}

\* class CallStatus(str, Enum): the values of the defined call statuses
CallStatus ==
  {"scheduled", "initiated", "ringing", "in_progress", "completed", "failed",
   "no_answer", "busy", "canceled"}

\* status_map.get(call_status, call_status)
status_map(call_status) ==
  CASE call_status = "in-progress" -> "in_progress"
    [] call_status = "no-answer"   -> "no_answer"
    [] OTHER                       -> call_status

TerminalCallStatuses == {"completed", "failed", "no_answer", "busy", "canceled"}

\* the CallDuration form field: absent, a number, not a number
CallDurations == {"", "30", "abc"}

\* int(call_duration) raises ValueError on what is no number
Parsable(call_duration) == call_duration = "30"
ParseDuration(call_duration) == IF call_duration = "30" THEN 30 ELSE NULL

\* the columns the webhook writes, without the failure reason
WebhookUpdates_NoReason(row, call_status, call_duration) ==
  LET our_status == status_map(call_status)
  IN  [status |-> our_status,
       duration_seconds |->
         IF call_duration # "" /\ Parsable(call_duration)
         THEN ParseDuration(call_duration) ELSE row.duration_seconds,
       ended_at |->
         IF our_status \in TerminalCallStatuses THEN now ELSE row.ended_at]

\* the columns the webhook writes
WebhookUpdates(row, call_status, call_duration) ==
  LET our_status == status_map(call_status)
  IN  [status |-> our_status,
       duration_seconds |->
         IF call_duration # "" /\ Parsable(call_duration)
         THEN ParseDuration(call_duration) ELSE row.duration_seconds,
       ended_at |->
         IF our_status \in TerminalCallStatuses THEN now ELSE row.ended_at,
       failure_reason |->
         IF our_status \in {"failed", "no_answer", "busy"}
         THEN "Call " \o call_status ELSE row.failure_reason]

\* get_call_log_by_sid: .single() gives the row when exactly one matches
get_call_log_by_sid(call_sid) ==
  LET found == { l \in DOMAIN call_logs : call_logs[l].call_sid = call_sid }
  IN  IF Cardinality(found) = 1 THEN found ELSE {}

\* the CallSid form field: absent, the sid of a dialled call, a sid no call
\* log has
MissingSid == NULL
WebhookSids == {MissingSid} \cup (1..(MaxLogs + 1))

\* the handler's answers: JSONResponse(...) has status code 200; an exception
\* that left the handler would be answered with 500
NoResponse == [status_code |-> 0, status |-> ""]
OkResponse == [status_code |-> 200, status |-> "ok"]
ErrorResponse == [status_code |-> 200, status |-> "error"]
ServerError == [status_code |-> 500, status |-> ""]

\* the outer except of the handler: logs and answers
WebhookExcept_Propagates == ServerError
WebhookExcept == ErrorResponse

\* what get_call_log_by_sid returns to the handler: its own except turns a
\* failing query into None
WebhookLookup_AnyRow(call_sid, lookup_raises) ==
  IF lookup_raises THEN {} ELSE DOMAIN call_logs
WebhookLookup(call_sid, lookup_raises) ==
  IF lookup_raises THEN {} ELSE get_call_log_by_sid(call_sid)

\* POST /webhook/twilio: one status event; the lookup or the update may fail
twilio_webhook(call_sid, call_status, call_duration, lookup_raises, update_raises) ==
  /\ IF call_sid = MissingSid
     THEN /\ webhook_response' = OkResponse
          /\ UNCHANGED call_logs
     ELSE IF WebhookLookup(call_sid, lookup_raises) = {}
     THEN /\ webhook_response' = OkResponse
          /\ UNCHANGED call_logs
     ELSE \E l \in WebhookLookup(call_sid, lookup_raises) :
            IF update_raises
            THEN /\ webhook_response' = WebhookExcept
                 /\ UNCHANGED call_logs
            ELSE /\ call_logs' = update_call_log(l,
                        WebhookUpdates(call_logs[l], call_status, call_duration))
                 /\ webhook_response' = OkResponse
  /\ UNCHANGED <<now, sync_settings, sync_cancelled, user_settings, scheduled_calls, pc, pending_calls,
                 call_log_id, agent, trigger_count>>

\* ------------------------------------------------------- specifications
Init ==
  /\ now = 0
  /\ user_settings = [u \in Users |-> GoodSettings]
  /\ scheduled_calls = <<>>
  /\ call_logs = <<>>
  /\ pc = [c \in Callers \cup SyncRequests |-> "idle"]
  /\ pending_calls = [w \in Workers |-> <<>>]
  /\ call_log_id = [c \in Callers |-> 0]
  /\ agent = <<>>
  /\ trigger_count = <<>>
  /\ sync_settings = [r \in SyncRequests |-> EmptyDict]
  /\ sync_cancelled = [r \in SyncRequests |-> {}]
  /\ webhook_response = NoResponse

\* the scheduler: poll cycles of the workers against the tables
Next ==
  \/ Tick
  \/ \E u \in Users : ChangeSettings(u)
  \/ \E u \in Users : schedule_call(u)
  \/ \E w \in Workers : Poll(w)
  \/ \E w \in Workers : MarkProcessing(w)
  \/ \E w \in Workers : MarkSkipped(w)
  \/ \E w \in Workers : TriggerCreateLog(w)
  \/ \E w \in Workers : TriggerCreateRoom(w)
  \/ \E w \in Workers : TriggerMarkInitiated(w)
  \/ \E w \in Workers : ScheduleNext(w)
  \/ \E w \in Workers : HandleFailure(w)

Spec == Init /\ [][Next]_vars

\* the call path: POST /trigger-call, the agent job and the Twilio webhook
LifecycleNext ==
  \/ Tick
  \/ \E u \in Users : ChangeSettings(u)
  \/ \E c \in ApiCallers : trigger_call(c)
  \/ \E c \in ApiCallers : TriggerCreateLog(c)
  \/ \E c \in ApiCallers : TriggerCreateRoom(c)
  \/ \E c \in ApiCallers : TriggerMarkInitiated(c)
  \/ \E l \in DOMAIN agent : AgentDial(l)
  \/ \E l \in DOMAIN agent : AgentConnect(l)
  \/ \E l \in DOMAIN agent : AgentCallEnded(l)
  \/ \E l \in DOMAIN agent : AgentScheduleNext(l)
  \/ \E sid \in 1..MaxLogs, st \in TwilioStatuses, d \in CallDurations :
       twilio_webhook(sid, st, d, FALSE, FALSE)

LifecycleSpec == Init /\ [][LifecycleNext]_vars

\* the provider's status events against the calls of one user: every CallSid,
\* status and duration the form can carry, with a store that may fail
WebhookNext ==
  \/ \E c \in ApiCallers : trigger_call(c)
  \/ \E c \in ApiCallers : TriggerCreateLog(c)
  \/ \E c \in ApiCallers : TriggerCreateRoom(c)
  \/ \E c \in ApiCallers : TriggerMarkInitiated(c)
  \/ \E l \in DOMAIN agent : AgentDial(l)
  \/ \E l \in DOMAIN agent : AgentConnect(l)
  \/ \E l \in DOMAIN agent : AgentCallEnded(l)
  \/ \E l \in DOMAIN agent : AgentScheduleNext(l)
  \/ \E sid \in WebhookSids, st \in TwilioStatuses, d \in CallDurations,
          lookup_raises, update_raises \in BOOLEAN :
       twilio_webhook(sid, st, d, lookup_raises, update_raises)

WebhookSpec == Init /\ [][WebhookNext]_vars

\* a worker's steps through one poll cycle
WorkerStep(w) ==
  \/ Poll(w)
  \/ MarkProcessing(w)
  \/ MarkSkipped(w)
  \/ TriggerCreateLog(w)
  \/ TriggerCreateRoom(w)
  \/ TriggerMarkInitiated(w)
  \/ ScheduleNext(w)
  \/ HandleFailure(w)

\* the interval trigger keeps firing and every started coroutine runs on
FairSpec == Spec /\ WF_vars(Tick) /\ \A w \in Workers : WF_vars(WorkerStep(w))

\* the resync endpoint next to one scheduler process
ResyncWorkers == {"w1"}

ResyncNext ==
  \/ Tick
  \/ \E u \in Users : ChangeSettings(u)
  \/ \E u \in Users : schedule_call(u)
  \/ \E u \in Users : SyncCancel(u)
  \/ \E u \in Users : SyncCreate(u)
  \/ \E w \in ResyncWorkers : WorkerStep(w)

ResyncSpec == Init /\ [][ResyncNext]_vars

\* ------------------------------------- the calculator on a range of inputs
Mon0900 == [day |-> 1, time |-> <<9, 0>>]
Wed1000 == [day |-> 3, time |-> <<10, 0>>]
Sun0130 == [day |-> 0, time |-> <<1, 30>>]
\* slots on both sides of the window limits, and one late in the evening
Fri1159 == [day |-> 5, time |-> <<11, 59>>]
Fri1200 == [day |-> 5, time |-> <<12, 0>>]
Fri1659 == [day |-> 5, time |-> <<16, 59>>]
Fri1700 == [day |-> 5, time |-> <<17, 0>>]
Sat2330 == [day |-> 6, time |-> <<23, 30>>]
\* malformed entries: no "day", no "time", "ab:00", "900", "25:00", day 9
NoDay == [day |-> NULL, time |-> <<9, 0>>]
NoTime == [day |-> 1, time |-> <<>>]
NotANumber == [day |-> 1, time |-> <<NULL, 0>>]
NoColon == [day |-> 1, time |-> <<900>>]
Hour25 == [day |-> 1, time |-> <<25, 0>>]
Day9 == [day |-> 9, time |-> <<9, 0>>]

CalcSchedules ==
  { <<>>, <<Mon0900>>, <<Sun0130>>, <<Mon0900, Wed1000>>, <<Wed1000, Mon0900>>,
    <<Mon0900, Mon0900>>, <<Hour25, Mon0900>>, <<Mon0900, Hour25>>, <<Day9>>, <<Wed1000, Day9>>,
    <<NoDay, Mon0900>>, <<NoTime>>, <<NotANumber, NoColon, Wed1000>>,
    <<Fri1159>>, <<Fri1200>>, <<Fri1659>>, <<Fri1700>>, <<Sat2330>> }

CalcSettings ==
  { [GoodSettings EXCEPT !.checkin_schedule = s, !.timezone = tz,
                         !.checkin_enabled = e] :
      s \in CalcSchedules, tz \in {"UTC", "America/New_York"}, e \in BOOLEAN }

\* Monday 00:00, 09:00 UTC; Monday 08:00, 09:00 and Wednesday 10:00 New York
\* time; Sunday 01:30 EDT and, after the clocks went back, Sunday 01:10 and
\* 01:30 EST
Instants == {0, 540, 720, 780, 3720, 8970, 9010, 9030}

CalcInit ==
  /\ now \in Instants
  /\ user_settings \in [Users -> CalcSettings]
  /\ scheduled_calls = <<>>
  /\ call_logs = <<>>
  /\ pc = [c \in Callers \cup SyncRequests |-> "idle"]
  /\ pending_calls = [w \in Workers |-> <<>>]
  /\ call_log_id = [c \in Callers |-> 0]
  /\ agent = <<>>
  /\ trigger_count = <<>>
  /\ sync_settings = [r \in SyncRequests |-> EmptyDict]
  /\ sync_cancelled = [r \in SyncRequests |-> {}]
  /\ webhook_response = NoResponse

CalcNext ==
  \/ \E u \in Users : schedule_call(u)
  \/ \E u \in Users : SyncCancel(u)
  \/ \E u \in Users : SyncCreate(u)

CalcSpec == CalcInit /\ [][CalcNext]_vars

\* ------------------------- one scheduler process and the calls it starts
CompletionNext ==
  \/ Tick
  \/ \E u \in Users : schedule_call(u)
  \/ \E w \in ResyncWorkers : WorkerStep(w)
  \/ \E l \in DOMAIN agent : AgentDial(l)
  \/ \E l \in DOMAIN agent : AgentConnect(l)
  \/ \E l \in DOMAIN agent : AgentCallEnded(l)
  \/ \E l \in DOMAIN agent : AgentScheduleNext(l)

CompletionSpec == Init /\ [][CompletionNext]_vars

\* ------- every path that creates entries, while the user edits the settings
CheckinChoices ==
  { GoodSettings,
    [GoodSettings EXCEPT !.checkin_enabled = FALSE],
    [GoodSettings EXCEPT !.checkin_schedule = <<>>] }

CreationNext ==
  \/ CompletionNext
  \/ \E u \in Users, s \in CheckinChoices : ChangeSettingsTo(u, s)
  \/ \E u \in Users : SyncCancel(u)
  \/ \E u \in Users : SyncCreate(u)

CreationSpec == Init /\ [][CreationNext]_vars

\* ------------------------------- two resync requests of one user at once
ConcurrentResyncNext ==
  \/ \E r \in SyncRequests : SyncCancel(r)
  \/ \E r \in SyncRequests : SyncCreate(r)

ConcurrentResyncSpec == CalcInit /\ [][ConcurrentResyncNext]_vars

\* ------------------------------------- the due query on a range of tables
MaxDueRows == 3

\* scheduled_for of the rows: before now, now, after now
DueTimes == {5, 10, 15}

DueRows ==
  { [user_id |-> "u1", scheduled_for |-> t, time_window |-> "morning",
     status |-> s,
     attempt_count |-> IF s = "completed" THEN 1 ELSE 0,
     max_attempts |-> DefaultMaxAttempts,
     last_attempt_at |-> IF s = "completed" THEN 0 ELSE NULL] :
      t \in DueTimes, s \in {"pending", "completed"} }

DueInit ==
  /\ now = 10
  /\ user_settings \in
       [Users -> {GoodSettings, [GoodSettings EXCEPT !.phone_verified = FALSE]}]
  /\ \E n \in 1..MaxDueRows :
       /\ scheduled_calls \in [1..n -> DueRows]
       /\ trigger_count = [i \in 1..n |-> 0]
  /\ call_logs = <<>>
  /\ pc = [c \in Callers \cup SyncRequests |-> "idle"]
  /\ pending_calls = [w \in Workers |-> <<>>]
  /\ call_log_id = [c \in Callers |-> 0]
  /\ agent = <<>>
  /\ sync_settings = [r \in SyncRequests |-> EmptyDict]
  /\ sync_cancelled = [r \in SyncRequests |-> {}]
  /\ webhook_response = NoResponse

DueNext == \E w \in ResyncWorkers : WorkerStep(w)

DueSpec == DueInit /\ [][DueNext]_vars

\* ------------------------------------------------------------- the claims
RowIds == DOMAIN scheduled_calls
LogIds == DOMAIN call_logs

\* the step in which worker w's claim update returns without an exception
ClaimSucceeds(w) == pc[w] = "claim" /\ pc'[w] \in {"skip", "trigger"}

\* worker w is inside trigger_callback(user_id)
InTrigger(w) == pc[w] \in {"trigger", "room", "initiated"}

\* the step in which the trigger callback returns no result to worker w
DispatchFails(w) == InTrigger(w) /\ pc'[w] \in {"claim", "idle"}

\* the step that ends worker w's processing of an entry whose dispatch succeeded
SuccessHandled(w) == pc[w] = "schedule_next" /\ pc'[w] # "schedule_next"

\* C1: a claim (pending -> processing) succeeds only on an entry that is
\* still pending at that instant, so of several workers claiming the same
\* pending entry exactly one succeeds and the others get a conflict.
C1_ClaimOnlyPending ==
  [][\A w \in Workers :
       ClaimSucceeds(w) =>
         scheduled_calls[scheduled_call(w).id].status = "pending"]_vars

\* C1, as it happens in the code: two workers hold a successful claim on the
\* same entry at once.
C1_TwoClaimHolders ==
  \E w1, w2 \in Workers :
    /\ w1 # w2
    /\ pc[w1] \in {"skip", "trigger", "room", "initiated", "schedule_next"}
    /\ pc[w2] \in {"skip", "trigger", "room", "initiated", "schedule_next"}
    /\ scheduled_call(w1).id = scheduled_call(w2).id

\* C2: the trigger callback is invoked at most once per claimed attempt of
\* an entry, hence never more often than max_attempts.
C2_DispatchOncePerAttempt ==
  \A i \in RowIds :
    /\ trigger_count[i] <= scheduled_calls[i].attempt_count
    /\ trigger_count[i] <= scheduled_calls[i].max_attempts

\* C5: an entry is failed only with attempt_count = max_attempts, and a
\* failed entry stays failed (it is not claimed or dispatched again).
C5_FailedAtMaxAndFinal ==
  /\ [](\A i \in RowIds :
          scheduled_calls[i].status = "failed" =>
            scheduled_calls[i].attempt_count = scheduled_calls[i].max_attempts)
  /\ [][\A i \in RowIds :
          scheduled_calls[i].status = "failed" =>
            scheduled_calls'[i].status = "failed"]_vars

\* C6: when the dispatch attempt of a claimed entry fails, the entry is set
\* to failed if the attempt count written by the claim has reached
\* max_attempts and back to pending otherwise.
C6_RetryDecision ==
  [][\A w \in Workers :
       DispatchFails(w) =>
         scheduled_calls'[scheduled_call(w).id].status =
           IF scheduled_call(w).attempt_count + 1 >= scheduled_call(w).max_attempts
           THEN "failed" ELSE "pending"]_vars

\* C7: after a failed start-session attempt the entry is pending or failed,
\* never left in processing.
C7_FailureNotLeftProcessing ==
  [][\A w \in Workers :
       DispatchFails(w) =>
         scheduled_calls'[scheduled_call(w).id].status \in {"pending", "failed"}]_vars

\* C8: when start-session succeeded, the worker leaves the entry completed
\* and the user's next occurrence queued before it moves on.
C8_SuccessCompletesAndQueues ==
  [][\A w \in Workers :
       SuccessHandled(w) =>
         /\ scheduled_calls'[scheduled_call(w).id].status = "completed"
         /\ \E j \in DOMAIN scheduled_calls' :
              /\ scheduled_calls'[j].user_id = scheduled_call(w).user_id
              /\ scheduled_calls'[j].status = "pending"
              /\ scheduled_calls'[j].scheduled_for > now]_vars

\* row i exists and is in processing
InProcessing(i) == i \in RowIds /\ scheduled_calls[i].status = "processing"

\* C9: no entry stays in processing for ever: a processing entry is
\* eventually moved out of processing (reclaimed to pending or failed).
C9_ProcessingReclaimed ==
  \A i \in 1..MaxRows : InProcessing(i) ~> ~InProcessing(i)

\* the user's current settings allow a call
CurrentlyCallable(u) ==
  /\ user_settings[u].present
  /\ user_settings[u].calls_enabled
  /\ user_settings[u].phone_number
  /\ user_settings[u].phone_verified

\* C10: no session is started for an entry whose user's current settings
\* have calls disabled or no verified phone (or do not exist), and an entry
\* that was skipped stays skipped.
C10_SkipInvalidConfig ==
  [][/\ \A w \in Workers :
          (pc[w] = "trigger" /\ pc'[w] = "room") =>
            CurrentlyCallable(scheduled_call(w).user_id)
     /\ \A i \in RowIds :
          scheduled_calls[i].status = "skipped" =>
            scheduled_calls'[i].status = "skipped"]_vars

\* the transitions of a call log's status the lifecycle allows
AllowedTransitions ==
  { <<"initiated", "ringing">>, <<"initiated", "failed">>,
    <<"ringing", "in_progress">>, <<"ringing", "no_answer">>,
    <<"ringing", "busy">>, <<"ringing", "failed">>, <<"ringing", "canceled">>,
    <<"in_progress", "completed">>, <<"in_progress", "failed">> }

\* C3: once a call log's status is terminal, no later write changes the row.
C3_TerminalSticky ==
  [][\A l \in LogIds :
       call_logs[l].status \in TerminalCallStatuses =>
         call_logs'[l] = call_logs[l]]_vars

\* C3, as it happens in the code: a record that carries the summary written
\* with "completed" has another status.
C3_CompletedOverwritten ==
  \E l \in LogIds :
    call_logs[l].summary # "" /\ call_logs[l].status # "completed"

\* C4: every change of a call log's status is an allowed transition, so the
\* status never moves backwards.
C4_OnlyAllowedTransitions ==
  [][\A l \in LogIds :
       call_logs'[l].status # call_logs[l].status =>
         <<call_logs[l].status, call_logs'[l].status>> \in AllowedTransitions]_vars

\* C4, as it happens in the code: the agent has dialled and written
\* "ringing", and the record says "initiated" again.
C4_RingingBackToInitiated ==
  \E l \in LogIds :
    agent[l].at = "ringing" /\ call_logs[l].status = "initiated"

\* the entry statuses from which no transition is permitted
TerminalEntryStatuses == {"completed", "failed", "skipped", "cancelled"}

\* C11: a terminal entry (completed, failed, skipped, cancelled) keeps its
\* status and is not dispatched, whatever any handler does, a worker that
\* fetched it as due before it became terminal included.
C11_TerminalEntryAbsorbing ==
  [][\A i \in RowIds :
       scheduled_calls[i].status \in TerminalEntryStatuses =>
         /\ scheduled_calls'[i].status = scheduled_calls[i].status
         /\ trigger_count'[i] = trigger_count[i]]_vars

\* worker w is between its claim of an entry and the end of that attempt
MidAttempt(w) ==
  pc[w] \in {"skip", "trigger", "room", "initiated", "schedule_next", "retry"}

\* C12: a resync changes an existing entry only by cancelling it while it is
\* pending; an entry in processing is left as it is, and the worker that
\* holds it goes on with its attempt.
C12_ResyncCancelsOnlyPending ==
  [][\A u \in Users :
       (SyncCancel(u) \/ SyncCreate(u)) =>
         /\ \A i \in RowIds :
              scheduled_calls'[i] # scheduled_calls[i] =>
                /\ scheduled_calls[i].status = "pending"
                /\ scheduled_calls'[i] =
                     [scheduled_calls[i] EXCEPT !.status = "cancelled"]
         /\ \A w \in Workers :
              pc'[w] = pc[w] /\ pending_calls'[w] = pending_calls[w]]_vars

\* C12: a resync has cancelled an entry while a worker is in the middle of
\* its attempt on another entry, which is still in processing
C12_ResyncDuringAttempt ==
  \E w \in ResyncWorkers, j \in RowIds :
    /\ MidAttempt(w)
    /\ scheduled_calls[scheduled_call(w).id].status = "processing"
    /\ scheduled_calls[j].status = "cancelled"

\* the ids of user u's pending entries
PendingOf(u) ==
  { i \in RowIds : scheduled_calls[i].user_id = u
                   /\ scheduled_calls[i].status = "pending" }

\* the entries a resync of u's current config creates at this instant
TargetRows(u) ==
  create_all_scheduled_calls(u, user_settings[u].checkin_schedule,
                             user_settings[u].timezone,
                             user_settings[u].checkin_enabled, now)

\* u's pending entries are the targets of u's current config: one entry
\* per target, at the target's instant
Matched(u) ==
  /\ user_settings[u].present
  /\ ~LoopRaises(user_settings[u].checkin_schedule)
  /\ Cardinality(PendingOf(u)) = Len(TargetRows(u))
  /\ { scheduled_calls[i].scheduled_for : i \in PendingOf(u) } =
       { TargetRows(u)[k].scheduled_for : k \in DOMAIN TargetRows(u) }

\* C13: a resync of a user whose pending entries already are the targets of
\* the config (as a first resync leaves them) cancels nothing and inserts
\* nothing: no entry is cancelled and created again for the same instant.
C13_ReconcileIdempotent ==
  /\ [][\A u \in Users :
          (SyncCancel(u) /\ Matched(u)) => scheduled_calls' = scheduled_calls]_vars
  /\ [](\A i, j \in RowIds :
          (/\ i < j
           /\ scheduled_calls[i].user_id = scheduled_calls[j].user_id
           /\ scheduled_calls[i].scheduled_for = scheduled_calls[j].scheduled_for)
          => scheduled_calls[i].status # "cancelled")

\* a well-formed slot: weekday 0..6 (0 = Sunday) and a time HH:MM
ValidSlot(entry) ==
  /\ entry.day \in 0..6
  /\ Len(entry.time) = 2
  /\ entry.time[1] \in 0..23
  /\ entry.time[2] \in 0..59

\* the local time of the instant t has the slot's weekday and HH:MM
LocalMatches(entry, tz, t) ==
  LET local == NowLocal(tz, t)
  IN  /\ Weekday(local) = TargetWeekday(entry.day)
      /\ local % MinutesPerDay = entry.time[1] * 60 + entry.time[2]

\* the instants after t at which the slot occurs within the next two weeks
OccurrencesAfter(entry, tz, t) ==
  { x \in { d * MinutesPerDay + entry.time[1] * 60 + entry.time[2] + off :
              d \in -1..15, off \in {0, 240, 300} } :
      x > t /\ LocalMatches(entry, tz, x) }

\* the slot's next occurrence: the first instant after t whose local time
\* has the slot's weekday and HH:MM
NextOccurrence(entry, tz, t) ==
  CHOOSE x \in OccurrencesAfter(entry, tz, t) :
    \A y \in OccurrencesAfter(entry, tz, t) : x <= y

\* the resync of u finishes in this step: every insert returned
SyncCompletes(u) ==
  /\ SyncCreate(u)
  /\ ~LoopRaises(sync_settings[u].checkin_schedule)
  /\ Len(scheduled_calls') = Len(scheduled_calls)
       + Len(create_all_scheduled_calls(u, sync_settings[u].checkin_schedule,
               sync_settings[u].timezone, sync_settings[u].checkin_enabled, now))

\* C14: when a resync completes, the user's pending entries are exactly one
\* per valid slot of the config it read, each at that slot's next occurrence.
C14_PendingIsOnePerSlot ==
  [][\A u \in Users :
       SyncCompletes(u) =>
         LET schedule == sync_settings[u].checkin_schedule
             tz       == sync_settings[u].timezone
             valid    == { k \in DOMAIN schedule : ValidSlot(schedule[k]) }
             pending  == { i \in DOMAIN scheduled_calls' :
                             /\ scheduled_calls'[i].user_id = u
                             /\ scheduled_calls'[i].status = "pending" }
         IN  /\ Cardinality(pending) = Cardinality(valid)
             /\ \A k \in valid :
                  \E i \in pending :
                    scheduled_calls'[i].scheduled_for =
                      NextOccurrence(schedule[k], tz, now)]_vars

\* the config has check-ins switched off or no schedule entry
NoCheckins(s) == ~s.checkin_enabled \/ s.checkin_schedule = <<>>

\* C15 as stated: a resync of a user whose config has check-ins disabled or
\* an empty schedule leaves none of the user's entries non-terminal and
\* inserts none.
C15_ResyncCancelsAllNonTerminal ==
  [][\A u \in Users :
       (SyncCancel(u) /\ NoCheckins(user_settings[u])) =>
         /\ Len(scheduled_calls') = Len(scheduled_calls)
         /\ \A i \in RowIds :
              scheduled_calls[i].user_id = u =>
                scheduled_calls'[i].status \in TerminalEntryStatuses]_vars

\* C15 amended: such a resync cancels every pending entry of the user,
\* leaves every other entry (one in processing included) as it is, inserts
\* none and ends there.
C15_ResyncCancelsAllPending ==
  [][\A u \in Users :
       /\ (SyncCancel(u) /\ NoCheckins(user_settings[u])) =>
            /\ Len(scheduled_calls') = Len(scheduled_calls)
            /\ pc'[u] = "idle"
            /\ \A i \in RowIds :
                 scheduled_calls'[i] =
                   IF /\ scheduled_calls[i].user_id = u
                      /\ scheduled_calls[i].status = "pending"
                   THEN [scheduled_calls[i] EXCEPT !.status = "cancelled"]
                   ELSE scheduled_calls[i]
       /\ SyncCreate(u) => ~NoCheckins(sync_settings[u])]_vars

\* C15: a resync on a config without check-ins has run and cancelled an
\* entry while another entry of the user is in processing
C15_DisabledResyncDone ==
  \E u \in Users, i, j \in RowIds :
    /\ sync_settings[u].present
    /\ NoCheckins(sync_settings[u])
    /\ pc[u] = "idle"
    /\ scheduled_calls[i].user_id = u /\ scheduled_calls[i].status = "cancelled"
    /\ scheduled_calls[j].user_id = u /\ scheduled_calls[j].status = "processing"

\* the rows this step adds to scheduled_calls
InsertedIds == (Len(scheduled_calls) + 1)..Len(scheduled_calls')

\* every row this step adds lies after now and, in local time, on the
\* weekday and HH:MM of a valid slot of the config
InsertedOnSlot(config) ==
  \A i \in InsertedIds :
    /\ scheduled_calls'[i].scheduled_for > now
    /\ \E k \in DOMAIN config.checkin_schedule :
         /\ ValidSlot(config.checkin_schedule[k])
         /\ LocalMatches(config.checkin_schedule[k], config.timezone,
                         scheduled_calls'[i].scheduled_for)

\* the config has a valid slot
HasValidSlot(config) ==
  \E k \in DOMAIN config.checkin_schedule : ValidSlot(config.checkin_schedule[k])

\* C16: for a config with at least one valid slot, every entry created from
\* the computed next occurrence is scheduled strictly after now and, in the
\* user's local time, on the weekday and HH:MM of one configured slot.
C16_NextOccurrenceOnSlot ==
  [][\A u \in Users :
       /\ (schedule_call(u) /\ HasValidSlot(user_settings[u]))
            => InsertedOnSlot(user_settings[u])
       /\ (SyncCreate(u) /\ HasValidSlot(sync_settings[u]))
            => InsertedOnSlot(sync_settings[u])]_vars

\* the valid slots of the config on whose weekday and HH:MM the local now
\* falls exactly
SlotsAtNow(config) ==
  { k \in DOMAIN config.checkin_schedule :
      /\ ValidSlot(config.checkin_schedule[k])
      /\ LocalMatches(config.checkin_schedule[k], config.timezone, now) }

\* a row this step adds lies 7 days after now in local time
InsertedAWeekLater(config) ==
  \E i \in InsertedIds :
    NowLocal(config.timezone, scheduled_calls'[i].scheduled_for) =
      NowLocal(config.timezone, now) + 7 * MinutesPerDay

\* every entry of the config is a valid slot the local now falls on
OnlySlotsAtNow(config) ==
  /\ SlotsAtNow(config) # {}
  /\ SlotsAtNow(config) = DOMAIN config.checkin_schedule

\* C17: when the local now equals a slot's weekday and time, the entry made
\* for that slot lies 7 days later, and no entry is made for the instant now.
C17_EqualityRollsForward ==
  [][\A u \in Users :
       /\ (schedule_call(u) /\ OnlySlotsAtNow(user_settings[u]))
            => InsertedAWeekLater(user_settings[u])
       /\ (SyncCompletes(u) /\ SlotsAtNow(sync_settings[u]) # {})
            => InsertedAWeekLater(sync_settings[u])
       /\ ((schedule_call(u) \/ SyncCreate(u))
             /\ SlotsAtNow(user_settings[u]) # {})
            => \A i \in InsertedIds : scheduled_calls'[i].scheduled_for # now]_vars

\* C17: an entry exists for a slot that the local now falls on exactly, 7
\* days after now in local time
C17_RolledForward ==
  \E u \in Users, i \in RowIds :
    /\ SlotsAtNow(user_settings[u]) # {}
    /\ scheduled_calls[i].user_id = u
    /\ NowLocal(user_settings[u].timezone, scheduled_calls[i].scheduled_for) =
         NowLocal(user_settings[u].timezone, now) + 7 * MinutesPerDay

\* the next occurrences of the valid slots of the config
SlotOccurrences(config) ==
  { NextOccurrence(config.checkin_schedule[k], config.timezone, now) :
      k \in { j \in DOMAIN config.checkin_schedule :
                ValidSlot(config.checkin_schedule[j]) } }

\* C18: the single-occurrence form schedules the earliest next occurrence
\* over all valid slots (none lies strictly between now and the result),
\* at most 7 days of local time after now; e.g. slot Monday 09:00 at
\* Wednesday 10:00 gives the following Monday 09:00, at Monday 08:00 the
\* same day 09:00.
C18_EarliestOverSlots ==
  [][\A u \in Users :
       (schedule_call(u) /\ HasValidSlot(user_settings[u])) =>
         \A i \in InsertedIds :
           /\ scheduled_calls'[i].scheduled_for \in SlotOccurrences(user_settings[u])
           /\ \A x \in SlotOccurrences(user_settings[u]) :
                scheduled_calls'[i].scheduled_for <= x
           /\ NowLocal(user_settings[u].timezone, scheduled_calls'[i].scheduled_for)
                <= NowLocal(user_settings[u].timezone, now) + 7 * MinutesPerDay]_vars

\* every insert of this create step returned: the step added as many rows
\* as the loop of create_all_scheduled_calls made
NoInsertRaised(u) ==
  /\ SyncCreate(u)
  /\ Len(scheduled_calls') = Len(scheduled_calls)
       + Len(create_all_scheduled_calls(u, sync_settings[u].checkin_schedule,
               sync_settings[u].timezone, sync_settings[u].checkin_enabled, now))

\* C19: a malformed slot (missing weekday or time, unparsable time, hour or
\* minute out of range, weekday outside 0..6) is left out and the other
\* slots are still scheduled: a resync whose inserts all return creates one
\* entry for each valid slot and none for any other, and the single
\* occurrence is made for a valid slot.
C19_MalformedSlotsExcluded ==
  [][\A u \in Users :
       /\ NoInsertRaised(u) =>
            LET schedule == sync_settings[u].checkin_schedule
                tz       == sync_settings[u].timezone
                valid    == { k \in DOMAIN schedule : ValidSlot(schedule[k]) }
            IN  /\ Cardinality(InsertedIds) = Cardinality(valid)
                /\ \A k \in valid :
                     \E i \in InsertedIds :
                       LocalMatches(schedule[k], tz,
                                    scheduled_calls'[i].scheduled_for)
       /\ schedule_call(u) =>
            \A i \in InsertedIds :
              \E k \in DOMAIN user_settings[u].checkin_schedule :
                /\ ValidSlot(user_settings[u].checkin_schedule[k])
                /\ LocalMatches(user_settings[u].checkin_schedule[k],
                                user_settings[u].timezone,
                                scheduled_calls'[i].scheduled_for)]_vars

\* the ids of a fetched list, in order
FetchedIds(list) == [i \in DOMAIN list |-> list[i].id]

\* C20: what a poll fetches is exactly the entries that are pending and due
\* (scheduled_for <= now), each once, in ascending order of scheduled_for,
\* and the worker takes them in that order.
C20_DueExactAndOrdered ==
  [][\A w \in Workers :
       /\ (Poll(w) /\ pending_calls'[w] # <<>>) =>
            LET ids == FetchedIds(pending_calls'[w])
            IN  /\ { ids[k] : k \in DOMAIN ids } =
                     { i \in RowIds : /\ scheduled_calls[i].status = "pending"
                                      /\ scheduled_calls[i].scheduled_for <= now }
                /\ \A k, l \in DOMAIN ids :
                     k < l =>
                       /\ ids[k] # ids[l]
                       /\ scheduled_calls[ids[k]].scheduled_for
                            <= scheduled_calls[ids[l]].scheduled_for
       /\ MarkProcessing(w) =>
            \A k \in DOMAIN pending_calls[w] :
              scheduled_call(w).scheduled_for <= pending_calls[w][k].scheduled_for]_vars

\* C20: a worker is about to claim the first of two fetched entries, the
\* earlier due one, which is not the one with the lower id
C20_EarliestDueFirst ==
  \E w \in Workers :
    /\ pc[w] = "claim"
    /\ Len(pending_calls[w]) = 2
    /\ pending_calls[w][1].scheduled_for < pending_calls[w][2].scheduled_for
    /\ pending_calls[w][1].id > pending_calls[w][2].id
    /\ \E i \in RowIds : /\ scheduled_calls[i].status = "pending"
                         /\ scheduled_calls[i].scheduled_for > now

\* the window the hour of a local time falls in
WindowOfHour(h) ==
  CASE h < 12 -> "morning"
    [] h >= 12 /\ h < 17 -> "afternoon"
    [] h >= 17 -> "evening"

\* the window of the local hour of row i's scheduled_for, in the timezone tz
WindowOfRow(i, tz) ==
  WindowOfHour(HourOf(NowLocal(tz, scheduled_calls'[i].scheduled_for)))

\* C21: the time_window of every created entry is the window of the local
\* hour of its scheduled_for (before 12 morning, from 12 to before 17
\* afternoon, from 17 evening), on both creation paths, so two entries for
\* the same occurrence carry the same window.
C21_TimeWindowFromLocalHour ==
  /\ [][\A u \in Users :
          /\ schedule_call(u) =>
               \A i \in InsertedIds :
                 scheduled_calls'[i].time_window =
                   WindowOfRow(i, user_settings[u].timezone)
          /\ SyncCreate(u) =>
               \A i \in InsertedIds :
                 scheduled_calls'[i].time_window =
                   WindowOfRow(i, sync_settings[u].timezone)]_vars
  /\ [](\A i, j \in RowIds :
          /\ scheduled_calls[i].user_id = scheduled_calls[j].user_id
          /\ scheduled_calls[i].scheduled_for = scheduled_calls[j].scheduled_for
          => scheduled_calls[i].time_window = scheduled_calls[j].time_window)

\* C21: the single-occurrence path and then the resync made an entry for
\* the same evening slot, whose UTC hour lies in the morning
C21_EveningOnBothPaths ==
  /\ Len(scheduled_calls) = 2
  /\ scheduled_calls[1].scheduled_for = scheduled_calls[2].scheduled_for
  /\ scheduled_calls[1].status = "cancelled"
  /\ scheduled_calls[2].status = "pending"
  /\ scheduled_calls[2].time_window = "evening"
  /\ HourOf(scheduled_calls[2].scheduled_for) < 12

\* C22: every entry has 0 <= attempt_count <= max_attempts, in every
\* reachable state, with several workers polling.
C22_AttemptCountBounded ==
  \A i \in RowIds :
    /\ 0 <= scheduled_calls[i].attempt_count
    /\ scheduled_calls[i].attempt_count <= scheduled_calls[i].max_attempts

\* C23: for every entry whose status is not pending exactly one of the two
\* holds: the status is terminal, or attempt_count < max_attempts.
C23_TerminalOrAttemptsLeft ==
  \A i \in RowIds :
    scheduled_calls[i].status # "pending" =>
      ((scheduled_calls[i].status \in TerminalEntryStatuses)
         # (scheduled_calls[i].attempt_count < scheduled_calls[i].max_attempts))

\* C23: an entry is in processing with no attempt left
C23_ProcessingWithoutAttemptsLeft ==
  \E i \in RowIds :
    /\ scheduled_calls[i].status = "processing"
    /\ scheduled_calls[i].attempt_count >= scheduled_calls[i].max_attempts

\* the step in which the except branch's own update raises and the
\* exception ends worker w's poll cycle
CycleAborts(w) ==
  /\ HandleFailure(w)
  /\ pending_calls'[w] = <<>>
  /\ scheduled_calls' = scheduled_calls

\* C24: when the store fails during a poll cycle and the cycle aborts, the
\* entry in hand is left as the cycle read it (pending, its attempt_count
\* unchanged, not in processing), so that the next cycle fetches it again.
C24_AbortWithoutPartialMutation ==
  [][\A w \in Workers :
       CycleAborts(w) =>
         LET row == scheduled_calls'[scheduled_call(w).id]
         IN  /\ row.status = "pending"
             /\ row.attempt_count = scheduled_call(w).attempt_count]_vars

\* the step in which trigger_call_for_user, called by POST /trigger-call,
\* passes its checks and goes on to start the session
TriggerNowProceeds(c) == TriggerCreateLog(c) /\ pc'[c] = "room"

\* C25: POST /trigger-call starts no session for a user whose calls are
\* disabled or whose phone number is missing or not verified.
C25_TriggerNowPreconditions ==
  [][\A c \in ApiCallers :
       TriggerNowProceeds(c) =>
         /\ user_settings[ApiUser].calls_enabled
         /\ user_settings[ApiUser].phone_number
         /\ user_settings[ApiUser].phone_verified]_vars

\* C25: the agent job of a room made by POST /trigger-call is dispatched
\* for a user whose phone is not verified
C25_SessionForUnverifiedPhone ==
  \E l \in DOMAIN agent :
    /\ agent[l].at = "dispatched"
    /\ ~user_settings[call_logs[l].user_id].phone_verified
    /\ \A w \in Workers : pc[w] = "idle"

\* C26: every call log whose status is failed carries a failure_reason that
\* is not empty, whether trigger_call_for_user, the agent job or the Twilio
\* webhook wrote the failure.
C26_FailedHasReason ==
  \A l \in LogIds :
    call_logs[l].status = "failed" => call_logs[l].failure_reason # ""

\* C26: the webhook has marked as failed a call the agent had dialled
C26_FailedByWebhook ==
  \E l \in LogIds :
    /\ call_logs[l].status = "failed"
    /\ call_logs[l].call_sid # NULL
    /\ call_logs[l].failure_reason = "Call failed"

\* C27: a claim that succeeds takes the entry from pending to processing,
\* raises the stored attempt_count by exactly one and stamps
\* last_attempt_at, all in the one step.
C27_ClaimIsOneUpdate ==
  [][\A w \in Workers :
       ClaimSucceeds(w) =>
         LET id == scheduled_call(w).id
         IN  /\ scheduled_calls[id].status = "pending"
             /\ scheduled_calls'[id].status = "processing"
             /\ scheduled_calls'[id].attempt_count =
                  scheduled_calls[id].attempt_count + 1
             /\ scheduled_calls'[id].last_attempt_at = now]_vars

NonTerminalEntryStatuses == {"pending", "processing"}

\* C28: a user never has two entries that are pending or processing for the
\* same scheduled_for; a dispatched call that runs to completion queues its
\* next occurrence once.
C28_OneEntryPerInstant ==
  \A i, j \in RowIds :
    /\ i # j
    /\ scheduled_calls[i].user_id = scheduled_calls[j].user_id
    /\ scheduled_calls[i].scheduled_for = scheduled_calls[j].scheduled_for
    => ~ /\ scheduled_calls[i].status \in NonTerminalEntryStatuses
         /\ scheduled_calls[j].status \in NonTerminalEntryStatuses

\* C28: the call of a dispatched entry has completed and its agent job has
\* finished, and two pending entries stand for the next occurrence
C28_NextOccurrenceQueuedTwice ==
  \E l \in LogIds, i, j \in RowIds :
    /\ call_logs[l].status = "completed"
    /\ agent[l].at = "done"
    /\ i < j
    /\ scheduled_calls[i].status = "pending"
    /\ scheduled_calls[j].status = "pending"
    /\ scheduled_calls[i].scheduled_for = scheduled_calls[j].scheduled_for

\* no resync request is between its cancel and its inserts
NoResyncRunning == \A r \in SyncRequests : pc[r] = "idle"

\* C29: once two resyncs of a user that ran interleaved have both ended,
\* the user has at most one pending entry per entry of the schedule.
C29_ConcurrentResyncsOnePerSlot ==
  \A u \in Users :
    NoResyncRunning =>
      Cardinality(PendingOf(u)) <= Len(user_settings[u].checkin_schedule)

\* C29: both requests have ended and two pending entries stand for the one
\* slot of the schedule
C29_SlotPendingTwice ==
  \E u \in Users : \E i, j \in PendingOf(u) :
    /\ NoResyncRunning
    /\ Len(user_settings[u].checkin_schedule) = 1
    /\ i < j
    /\ scheduled_calls[i].scheduled_for = scheduled_calls[j].scheduled_for

\* the entries of the schedule for which create_all_scheduled_calls is to
\* insert a row
ToInsert(schedule) == { k \in DOMAIN schedule : ~Skipped(schedule[k]) }

\* the step in which the insertion step of request r's resync ends early:
\* an insert or the loop raised
ResyncFailsPartway(r) ==
  /\ SyncCreate(r)
  /\ Cardinality(InsertedIds) <
       Cardinality(ToInsert(sync_settings[r].checkin_schedule))

\* C30: a resync that fails after its cancel step leaves the user's pending
\* entries as they were before it: the entries it cancelled are pending
\* again and none of the new ones is in the table.
C30_FailedResyncLeavesPending ==
  [][\A r \in SyncRequests :
       ResyncFailsPartway(r) =>
         /\ \A i \in sync_cancelled[r] : scheduled_calls'[i].status = "pending"
         /\ InsertedIds = {}]_vars

\* C30: a resync has failed partway and is over; the entry it cancelled is
\* still cancelled and the user, whose schedule has a valid slot, has no
\* pending entry
C30_CancelledAndNothingInserted ==
  \E u \in Users :
    /\ NoResyncRunning
    /\ HasValidSlot(user_settings[u])
    /\ user_settings[u].checkin_enabled
    /\ PendingOf(u) = {}
    /\ \E i \in RowIds : /\ scheduled_calls[i].user_id = u
                         /\ scheduled_calls[i].status = "cancelled"

\* C31: the attempt_count of an entry never decreases, and every claim that
\* succeeds stores one more than the value stored before it, also when the
\* claiming worker fetched the entry before another worker claimed it.
C31_AttemptCountNeverDecreases ==
  [][/\ \A i \in RowIds :
          scheduled_calls'[i].attempt_count >= scheduled_calls[i].attempt_count
     /\ \A w \in Workers :
          ClaimSucceeds(w) =>
            scheduled_calls'[scheduled_call(w).id].attempt_count =
              scheduled_calls[scheduled_call(w).id].attempt_count + 1]_vars

\* C31: a worker holds an entry from an earlier fetch whose stored
\* attempt_count has since gone past the one it will write
C31_StaleClaimPending ==
  \E w \in Workers :
    /\ pc[w] = "claim"
    /\ scheduled_calls[scheduled_call(w).id].attempt_count
         > scheduled_call(w).attempt_count + 1

\* C32: the status stored in a call log is always one of the defined call
\* statuses, whatever delivery-status event the webhook receives, provider
\* statuses without a mapping included.
C32_StatusIsDefined ==
  \A l \in LogIds : call_logs[l].status \in CallStatus

\* C32: the webhook has stored a provider status that has no mapping
C32_UnmappedStatusStored ==
  \E l \in LogIds :
    /\ call_logs[l].call_sid # NULL
    /\ call_logs[l].status \notin CallStatus
    /\ call_logs[l].status \in TwilioStatuses

\* the call logs whose call_sid is the event's CallSid
MatchingLogs(call_sid) ==
  { l \in LogIds : call_logs[l].call_sid = call_sid }

\* C33: a status event whose CallSid is missing or is the call_sid of no call
\* log changes no row of the store: a step that changes a row is no step of
\* the webhook on such an event.
C33_UnknownSidChangesNothing ==
  [][\/ /\ call_logs' = call_logs
        /\ scheduled_calls' = scheduled_calls
        /\ user_settings' = user_settings
     \/ ~ \E sid \in WebhookSids :
            /\ sid = MissingSid \/ MatchingLogs(sid) = {}
            /\ \E st \in TwilioStatuses, d \in CallDurations,
                  lookup_raises, update_raises \in BOOLEAN :
                 twilio_webhook(sid, st, d, lookup_raises, update_raises)]_vars

\* C33: the webhook has answered while call logs exist and none of them has
\* a call_sid yet, so every event so far matched no call log
C33_UnknownSidAnswered ==
  /\ webhook_response = OkResponse
  /\ LogIds # {}
  /\ \A l \in LogIds : call_logs[l].call_sid = NULL

C35_DispatchOnlyFetchedDue ==
  [][/\ \A w \in Workers :
          Poll(w) =>
            \A k \in DOMAIN pending_calls'[w] :
              LET i == pending_calls'[w][k].id
              IN  /\ scheduled_calls[i].status = "pending"
                  /\ scheduled_calls[i].scheduled_for <= now
     /\ \A i \in RowIds :
          trigger_count'[i] > trigger_count[i] =>
            /\ \E w \in Workers :
                 /\ pc[w] = "trigger"
                 /\ pending_calls[w] # <<>>
                 /\ scheduled_call(w).id = i
            /\ scheduled_calls[i].scheduled_for <= now]_vars

\* C35: a due entry has been dispatched while a pending entry that is not
\* yet due has not
C35_DueDispatchedFutureWaiting ==
  \E i, j \in RowIds :
    /\ trigger_count[i] > 0
    /\ scheduled_calls[j].status = "pending"
    /\ scheduled_calls[j].scheduled_for > now
    /\ trigger_count[j] = 0

\* the step in which worker w's queuing of the next occurrence fails: there
\* was an occurrence to insert and no row was inserted
QueueFails(w) ==
  /\ pc[w] = "schedule_next"
  /\ pc'[w] # "schedule_next"
  /\ ScheduleNextForUser(scheduled_call(w).user_id,
                         scheduled_call(w).user_settings, now) # <<>>
  /\ Len(scheduled_calls') = Len(scheduled_calls)

\* C36: when queuing the next occurrence fails after a successful dispatch,
\* the step leaves the dispatched entry as it is (the retry branch neither
\* returns it to pending nor marks it failed), invokes no trigger, and the
\* worker goes on with the rest of its list, in which the entry is no more.
C36_QueueFailureContained ==
  [][\A w \in Workers :
       QueueFails(w) =>
         LET i == scheduled_call(w).id
         IN  /\ scheduled_calls' = scheduled_calls
             /\ trigger_count' = trigger_count
             /\ pc'[w] \in {"claim", "idle"}
             /\ \A k \in DOMAIN pending_calls'[w] : pending_calls'[w][k].id # i]_vars

\* C36: the dispatch of worker w's entry has returned a result, there is a
\* next occurrence to queue, and its insert can only fail
C36_DispatchedAndInsertFails ==
  \E w \in Workers :
    /\ pc[w] = "schedule_next"
    /\ scheduled_calls[scheduled_call(w).id].status = "processing"
    /\ trigger_count[scheduled_call(w).id] = 1
    /\ ScheduleNextForUser(scheduled_call(w).user_id,
                           scheduled_call(w).user_settings, now) # <<>>
    /\ ~CanInsert(scheduled_calls, MaxRows)

\* the step in which worker w is through with _schedule_next_for_user
WorkerCreationStep(w) == pc[w] = "schedule_next" /\ pc'[w] # "schedule_next"

\* the step in which the agent job of call log l is through with the
\* schedule_next_call of on_call_ended
AgentCreationStep(l) ==
  /\ l \in DOMAIN agent
  /\ agent[l].at = "schedule_next"
  /\ agent'[l].at # "schedule_next"

====
